---- MODULE Spec2Model ----
(***************************************************************************)
(* Model of the parallel range-download engine of go-downloader:          *)
(* downloadManager (probe, planner, batch scheduler, workers, retries),   *)
(* DownloadChunk (the chunk cursor) and Downloader.DownloadWithContext.   *)
(*                                                                         *)
(* The remote resource is the byte string 1, 2, ..., remoteSize: the byte *)
(* at offset o has the value o + 1.  The sink is a positional byte store;  *)
(* the value 0 marks an offset that was never written.                     *)
(***************************************************************************)
EXTENDS Integers, Sequences, FiniteSets, TLC

VARIABLES
    remoteSize,   \* length of the remote resource (environment)
    cfg,          \* DownloaderConfig shared by the Downloader and the manager
    cfg0,         \* the configuration as it was when the call started
    ctxDone,      \* the caller's context has been cancelled
    pc,           \* position of the calling goroutine
    probeReqs,    \* the HTTP requests issued by the size prober and their answers
    totalBytes,   \* downloadManager.totalBytes
    written,      \* downloadManager.written
    err,          \* downloadManager.err
    batches,      \* []Batch built by batchChunks; holds the DownloadChunk values
    workers,      \* one goroutine per batch (downloadBatch)
    wg,           \* downloadManager.wg counter
    faults,       \* per chunk: fetch attempts that the server or transport failed
    sink,         \* the destination file, by offset
    gets,         \* ranged GETs sent so far (one per tryDownloadChunk call)
    result        \* the value returned by DownloadWithContext

vars == << remoteSize, cfg, cfg0, ctxDone, pc, probeReqs, totalBytes, written,
           err, batches, workers, wg, faults, sink, gets, result >>

----------------------------------------------------------------------------
(* Bounds of the model *)

MaxTotal == 4
MaxChunkSize == 2
MaxParts == 2
MaxRetriesBound == 2
MaxK == 2
MaxFaults == 2

----------------------------------------------------------------------------
(* Program constants *)

MB == 1048576
StatusPartialContent == 206
StatusForbidden == 403
StatusMethodNotAllowed == 405

----------------------------------------------------------------------------
(* Go helpers *)

\* Go's integer division truncates toward zero.
GoDiv(a, b) ==
    IF a >= 0 THEN a \div b ELSE -((-a) \div b)

Min(a, b) == IF a < b THEN a ELSE b

\* error values: dyn is the dynamic type, cause the wrapped error
NilErr == [dyn |-> "nil", msg |-> "", cause |-> ""]

DownloadError(msg, cause) == [dyn |-> "DownloadError", msg |-> msg, cause |-> cause]

TransportErr == [dyn |-> "url.Error", msg |-> "transport", cause |-> ""]

\* sentinel errors of net/http
ErrNotSupported == [dyn |-> "http.ProtocolError", msg |-> "feature not supported", cause |-> ""]

ErrMissingFile == [dyn |-> "http.ProtocolError", msg |-> "no such file", cause |-> ""]

----------------------------------------------------------------------------
(* Environment: what the server may answer *)

\* answers to the HEAD probe; neterr: the call failed with no response
HeadResponses ==
    { [neterr |-> FALSE, status |-> 200, contentLength |-> remoteSize],
      [neterr |-> FALSE, status |-> StatusForbidden, contentLength |-> 0],
      [neterr |-> FALSE, status |-> StatusMethodNotAllowed, contentLength |-> 0],
      [neterr |-> FALSE, status |-> 404, contentLength |-> 0],
      [neterr |-> TRUE, status |-> 0, contentLength |-> 0] }

\* answers to GET with Range: bytes=0-0; total is the number after
\* "bytes 0-0/" in Content-Range, hasRange tells whether the header is there
GetZeroResponses ==
    { [neterr |-> FALSE, status |-> StatusPartialContent, hasRange |-> TRUE, total |-> remoteSize],
      [neterr |-> FALSE, status |-> 200, hasRange |-> FALSE, total |-> 0],
      [neterr |-> TRUE, status |-> 0, hasRange |-> FALSE, total |-> 0] }

----------------------------------------------------------------------------
(* Size prober *)

\* resp.StatusCode is read before err is checked: a failed call has a nil
\* response and the read panics
doHeadRequest(resp) ==
    IF resp.neterr
    THEN [panic |-> TRUE, size |-> 0, err |-> NilErr]
    ELSE IF resp.status = StatusMethodNotAllowed \/ resp.status = StatusForbidden
    THEN [panic |-> FALSE, size |-> 0,
          err |-> DownloadError("Response status code is not 200", ErrNotSupported.msg)]
    ELSE [panic |-> FALSE, size |-> resp.contentLength, err |-> NilErr]

doGetZero(resp) ==
    IF resp.neterr
    THEN [panic |-> TRUE, size |-> 0, err |-> NilErr]
    ELSE IF resp.status # StatusPartialContent
    THEN [panic |-> FALSE, size |-> 0,
          err |-> DownloadError("Response status code is not 206", "")]
    ELSE IF ~resp.hasRange
    THEN [panic |-> TRUE, size |-> 0, err |-> NilErr]
    ELSE [panic |-> FALSE, size |-> resp.total, err |-> NilErr]

\* reqs: the requests that were issued, each with its answer
getFileSize(headResp, getResp) ==
    LET h == doHeadRequest(headResp)
        g == doGetZero(getResp)
        head == << [req |-> "HEAD", neterr |-> headResp.neterr, status |-> headResp.status] >>
        both == Append(head, [req |-> "GET0", neterr |-> getResp.neterr,
                              status |-> getResp.status])
    IN  IF h.panic
        THEN [panic |-> TRUE, size |-> 0, err |-> NilErr, reqs |-> head]
        ELSE IF h.err.dyn = "DownloadError" /\ h.err.cause # ErrNotSupported.msg
        THEN IF g.panic
             THEN [panic |-> TRUE, size |-> 0, err |-> NilErr, reqs |-> both]
             ELSE IF g.err # NilErr
             THEN [panic |-> FALSE, size |-> 0,
                   err |-> DownloadError("Failed to get file size", h.err.msg),
                   reqs |-> both]
             ELSE [panic |-> FALSE, size |-> g.size, err |-> NilErr, reqs |-> both]
        ELSE IF h.err # NilErr
        THEN IF h.err = ErrNotSupported
             THEN [panic |-> FALSE, size |-> 0,
                   err |-> DownloadError("The server does not support range requests", h.err.msg),
                   reqs |-> head]
             ELSE IF h.err = ErrMissingFile
             THEN [panic |-> FALSE, size |-> 0,
                   err |-> DownloadError("The file does not exist", h.err.msg),
                   reqs |-> head]
             ELSE [panic |-> FALSE, size |-> 0,
                   err |-> DownloadError("Failed to get file size", h.err.msg),
                   reqs |-> head]
        ELSE [panic |-> FALSE, size |-> h.size, err |-> NilErr, reqs |-> head]

----------------------------------------------------------------------------
(* Partition planner *)

defaultPartDeterminer(totalSize) ==
    IF totalSize < 1 * MB THEN 1
    ELSE IF totalSize < 10 * MB THEN 4
    ELSE IF totalSize < 100 * MB THEN 16
    ELSE 32

\* a determiner hook: nil, the built-in one, or a function that returns val
NilFunc == [kind |-> "nil", val |-> 0]

DefaultFunc == [kind |-> "default", val |-> 0]

ConstFunc(v) == [kind |-> "const", val |-> v]

PartDeterminerFunc(c, totalSize) ==
    IF c.PartDeterminerFunc.kind = "default"
    THEN defaultPartDeterminer(totalSize)
    ELSE c.PartDeterminerFunc.val

\* the default chunk-size hook divides by the default part count
ChunkSizeDeterminerFunc(c, totalSize) ==
    IF c.ChunkSizeDeterminerFunc.kind = "default"
    THEN GoDiv(totalSize, defaultPartDeterminer(totalSize))
    ELSE c.ChunkSizeDeterminerFunc.val

\* panic: integer division by zero
determineNumParts(c, totalSize) ==
    IF c.ChunkSize > 0
    THEN [panic |-> FALSE, numParts |-> GoDiv(totalSize, c.ChunkSize),
          chunkSize |-> c.ChunkSize]
    ELSE IF c.PartDeterminerFunc.kind # "nil"
    THEN LET numParts == PartDeterminerFunc(c, totalSize)
         IN  IF numParts = 0
             THEN [panic |-> TRUE, numParts |-> 0, chunkSize |-> 0]
             ELSE [panic |-> FALSE, numParts |-> numParts,
                   chunkSize |-> GoDiv(totalSize, numParts)]
    ELSE IF c.ChunkSizeDeterminerFunc.kind # "nil"
    THEN LET chunkSize == ChunkSizeDeterminerFunc(c, totalSize)
         IN  IF chunkSize = 0
             THEN [panic |-> TRUE, numParts |-> 0, chunkSize |-> 0]
             ELSE [panic |-> FALSE, numParts |-> GoDiv(totalSize, chunkSize),
                   chunkSize |-> chunkSize]
    ELSE LET numParts == defaultPartDeterminer(totalSize)
         IN  [panic |-> FALSE, numParts |-> numParts,
              chunkSize |-> GoDiv(totalSize, numParts)]

----------------------------------------------------------------------------
(* Batch scheduler *)

\* the DownloadChunk with index i (from 0), as both batching loops build it
NewChunk(c, total, i) ==
    LET start == i * c.ChunkSize
        size  == IF start + c.ChunkSize > total THEN total - start ELSE c.ChunkSize
    IN  [start |-> start, size |-> size, current |-> 0]

\* panic: make() with a negative length
batchChunksByOne(c, total, numChunks) ==
    IF numChunks < 0
    THEN [panic |-> TRUE, batches |-> << >>]
    ELSE [panic |-> FALSE,
          batches |-> [b \in 1..numChunks |-> << NewChunk(c, total, b - 1) >>]]

\* the scheduler without the ceiling: one batch per chunk whatever the limit
batchChunksIgnoringLimit(c, total, numChunks) ==
    batchChunksByOne(c, total, numChunks)

\* panic: batches[batchIndex] with batchIndex out of range
batchChunksByMaxConcurrentParts(c, total, numChunks) ==
    IF numChunks <= c.MaxConcurrentDownloads
    THEN batchChunksByOne(c, total, numChunks)
    ELSE LET k == c.MaxConcurrentDownloads
             batchSize == GoDiv(numChunks, k)
             InBatch(b) == { i \in 0..(numChunks - 1) : GoDiv(i, batchSize) = b }
             Nth(S, n) == CHOOSE i \in S : Cardinality({ j \in S : j < i }) = n - 1
         IN  IF \E i \in 0..(numChunks - 1) : GoDiv(i, batchSize) >= k
             THEN [panic |-> TRUE, batches |-> << >>]
             ELSE [panic |-> FALSE,
                   batches |-> [b \in 1..k |->
                       [n \in 1..Cardinality(InBatch(b - 1)) |->
                           NewChunk(c, total, Nth(InBatch(b - 1), n))]]]

batchChunks(c, total, numChunks) ==
    IF c.MaxConcurrentDownloads = -1
    THEN batchChunksByOne(c, total, numChunks)
    ELSE batchChunksByMaxConcurrentParts(c, total, numChunks)

----------------------------------------------------------------------------
(* Positional sink and chunk cursor *)

\* the bytes of the remote resource in [start, start + n)
RemoteBytes(start, n) == [j \in 1..n |-> start + j]

\* FileWriter.WriteAt on a file that grows as needed; s[o + 1] is the byte at
\* offset o and 0 fills the holes
WriteAt(s, p, off) ==
    LET end == IF off + Len(p) > Len(s) THEN off + Len(p) ELSE Len(s)
    IN  [o \in 1..end |->
            IF o > off /\ o <= off + Len(p) THEN p[o - off]
            ELSE IF o <= Len(s) THEN s[o]
            ELSE 0]

\* DownloadChunk.Write: n bytes taken, the chunk and the sink afterwards
Write(dc, p, s) ==
    IF dc.current >= dc.size
    THEN [n |-> 0, chunk |-> dc, sink |-> s]
    ELSE [n |-> Len(p),
          chunk |-> [dc EXCEPT !.current = dc.current + Len(p)],
          sink |-> WriteAt(s, p, dc.start + dc.current)]

\* the body a server that honours the Range header of GetBytesRange sends:
\* bytes start..start+size-1 of the resource; 0 when the range is not
\* satisfiable (then the answer is not a 206)
BodyLen(dc) ==
    IF dc.size <= 0 \/ dc.start >= remoteSize THEN 0
    ELSE Min(dc.size, remoteSize - dc.start)

----------------------------------------------------------------------------
(* Shared download state, under dm.mu *)

SetError(old, e) == e

AddWritten(old, n) == old + n

\* a wait that does not wait
WaitDoneAtOnce(counter) == TRUE

\* wg.Wait() lets the caller go on
WaitDone(counter) == counter = 0

----------------------------------------------------------------------------
(* Initial state *)

Configs ==
    { [MaxRetries |-> r, MaxConcurrentDownloads |-> k, ChunkSize |-> cs,
       PartDeterminerFunc |-> pd, ChunkSizeDeterminerFunc |-> csd] :
         r \in 0..MaxRetriesBound,
         k \in {-1} \cup 1..MaxK,
         cs \in 0..MaxChunkSize,
         pd \in {NilFunc, DefaultFunc} \cup { ConstFunc(n) : n \in 0..MaxParts },
         csd \in {NilFunc, ConstFunc(0), ConstFunc(MaxChunkSize)} }

\* the configurations of the model, one group per way the chunking is
\* resolved: a fixed ChunkSize, a part count hook, a chunk size hook (one that
\* returns the largest chunk size of the model), the built-in default; a hook
\* may return 0
ValidConfigs ==
    { c \in Configs :
        \/ c.ChunkSize > 0 /\ c.PartDeterminerFunc = DefaultFunc
                           /\ c.ChunkSizeDeterminerFunc = NilFunc
        \/ c.ChunkSize = 0 /\ c.PartDeterminerFunc.kind = "const"
                           /\ c.ChunkSizeDeterminerFunc = NilFunc
        \/ c.ChunkSize = 0 /\ c.PartDeterminerFunc = NilFunc }

NewWorker == [pc |-> "unborn", ci |-> 1, i |-> 0, err |-> NilErr, pos |-> 0, copied |-> 0]

Init ==
    /\ remoteSize \in 0..MaxTotal
    /\ cfg \in ValidConfigs
    /\ cfg0 = cfg
    /\ ctxDone = FALSE
    /\ pc = "call"
    /\ probeReqs = << >>
    /\ totalBytes = 0
    /\ written = 0
    /\ err = NilErr
    /\ batches = << >>
    /\ workers = << >>
    /\ wg = 0
    /\ faults = << >>
    /\ sink = << >>
    /\ gets = 0
    /\ result = [n |-> 0, err |-> NilErr]

----------------------------------------------------------------------------
(* The calling goroutine *)

\* DownloadWithContext: createFile, then the manager is built with the context
CreateFile ==
    /\ pc = "call"
    /\ \E ok \in BOOLEAN :
         IF ok
         THEN /\ pc' = "probe"
              /\ UNCHANGED result
         ELSE /\ pc' = "returned"
              /\ result' = [n |-> 0, err |-> [dyn |-> "fs.PathError", msg |-> "open", cause |-> ""]]
    /\ UNCHANGED << remoteSize, cfg0, gets, cfg, ctxDone, probeReqs, totalBytes, written, err,
                    batches, workers, wg, faults, sink >>

\* download: getFileSize and SetTotalBytes
Probe ==
    /\ pc = "probe"
    /\ \E headResp \in HeadResponses, getResp \in GetZeroResponses :
         LET r == getFileSize(headResp, getResp)
         IN  /\ probeReqs' = r.reqs
             /\ IF r.panic
                THEN /\ pc' = "panicked"
                     /\ UNCHANGED << totalBytes, result >>
                ELSE IF r.err # NilErr
                THEN /\ pc' = "returned"
                     /\ result' = [n |-> 0, err |-> r.err]
                     /\ UNCHANGED totalBytes
                ELSE /\ pc' = "plan"
                     /\ totalBytes' = r.size
                     /\ UNCHANGED result
    /\ UNCHANGED << remoteSize, cfg0, gets, cfg, ctxDone, written, err, batches, workers, wg,
                    faults, sink >>

\* download: determineNumParts, the store into cfg.ChunkSize, batchChunks
Plan ==
    /\ pc = "plan"
    /\ LET d  == determineNumParts(cfg, totalBytes)
           c2 == [cfg EXCEPT !.ChunkSize = d.chunkSize]
           b  == batchChunks(c2, totalBytes, d.numParts)
       IN  IF d.panic
           THEN /\ pc' = "panicked"
                /\ UNCHANGED << cfg, batches, workers, faults >>
           ELSE /\ cfg' = c2
                /\ IF b.panic
                   THEN /\ pc' = "panicked"
                        /\ UNCHANGED << batches, workers, faults >>
                   ELSE /\ pc' = "run"
                        /\ batches' = b.batches
                        /\ workers' = [w \in 1..Len(b.batches) |-> NewWorker]
                        /\ faults' = [w \in 1..Len(b.batches) |->
                                         [n \in 1..Len(b.batches[w]) |-> 0]]
    /\ UNCHANGED << remoteSize, cfg0, gets, ctxDone, probeReqs, totalBytes, written, err, wg,
                    sink, result >>

Spawned == Cardinality({ w \in DOMAIN workers : workers[w].pc # "unborn" })

\* download: wg.Add(1); go dm.downloadBatch(batches[i])
Spawn ==
    /\ pc = "run"
    /\ Spawned < Len(batches)
    /\ wg' = wg + 1
    /\ workers' = [workers EXCEPT ![Spawned + 1].pc = "loop"]
    /\ UNCHANGED << remoteSize, cfg0, gets, cfg, ctxDone, pc, probeReqs, totalBytes, written,
                    err, batches, faults, sink, result >>

\* download: wg.Wait() returns, then the final return
Return ==
    /\ pc = "run"
    /\ Spawned = Len(batches)
    /\ WaitDone(wg)
    /\ pc' = "returned"
    /\ result' = IF err # NilErr THEN [n |-> 0, err |-> err]
                                 ELSE [n |-> written, err |-> NilErr]
    /\ UNCHANGED << remoteSize, cfg0, gets, cfg, ctxDone, probeReqs, totalBytes, written, err,
                    batches, workers, wg, faults, sink >>

----------------------------------------------------------------------------
(* Workers: downloadBatch -> downloadChunk -> tryDownloadChunk *)

Chunk(w) == batches[w][workers[w].ci]

\* a ranged GET is open: the answer arrived and its body is being copied,
\* until resp.Body.Close
InFlight(w) == workers[w].pc = "copy"

\* the goroutine was started and has not called wg.Done
Running(w) == workers[w].pc \in {"loop", "copy"}

RECURSIVE SumSeq(_)
SumSeq(q) == IF q = << >> THEN 0 ELSE Head(q) + SumSeq(Tail(q))

\* attempts failed by the server or the transport so far, over all chunks
TotalFaults == SumSeq([w \in DOMAIN faults |-> SumSeq(faults[w])])

\* the environment may fail this attempt: always when the range cannot be
\* served, otherwise while the model's budget of failures lasts
MayFail(w) == BodyLen(Chunk(w)) = 0 \/ TotalFaults < MaxFaults

\* one attempt came back with an error: the retry loop goes on
AttemptFailed(w, e) ==
    [workers EXCEPT ![w] = [@ EXCEPT !.pc = "loop", !.i = @ + 1, !.err = e,
                                     !.pos = 0, !.copied = 0]]

\* downloadChunk: the retry loop admits another attempt
MayTry(i, maxRetries) == i < maxRetries

\* tryDownloadChunk: the request with the Range header is sent and the attempt
\* ends before any byte is copied.  A range that cannot be served is answered
\* with a status other than 206; for a range that can be served Do fails (a
\* status other than 206 would differ from that by the error message only).
RequestFail(w) ==
    /\ workers[w].pc = "loop"
    /\ workers[w].ci <= Len(batches[w])
    /\ MayTry(workers[w].i, cfg.MaxRetries)
    /\ MayFail(w)
    /\ workers' = AttemptFailed(w,
                      IF BodyLen(Chunk(w)) = 0
                      THEN DownloadError("Failed to download chunk", "")
                      ELSE DownloadError("Failed to do request", TransportErr.msg))
    /\ faults' = [faults EXCEPT ![w][workers[w].ci] = @ + 1]
    /\ gets' = gets + 1
    /\ UNCHANGED << remoteSize, cfg0, cfg, ctxDone, pc, probeReqs, totalBytes, written,
                    err, batches, wg, sink, result >>

\* tryDownloadChunk: the request is sent and answered 206, io.Copy starts
Request206(w) ==
    /\ workers[w].pc = "loop"
    /\ workers[w].ci <= Len(batches[w])
    /\ MayTry(workers[w].i, cfg.MaxRetries)
    /\ BodyLen(Chunk(w)) > 0
    /\ workers' = [workers EXCEPT ![w].pc = "copy"]
    /\ gets' = gets + 1
    /\ UNCHANGED << remoteSize, cfg0, cfg, ctxDone, pc, probeReqs, totalBytes, written,
                    err, batches, wg, faults, sink, result >>

\* io.Copy: one Read of len bytes of the body and the Write of them to the
\* chunk; a Write that takes fewer bytes without an error is ErrShortWrite
CopyPiece(w) ==
    /\ workers[w].pc = "copy"
    /\ \E len \in 1..(BodyLen(Chunk(w)) - workers[w].pos) :
         LET dc == Chunk(w)
             p  == RemoteBytes(dc.start + workers[w].pos, len)
             r  == Write(dc, p, sink)
         IN  /\ batches' = [batches EXCEPT ![w][workers[w].ci] = r.chunk]
             /\ sink' = r.sink
             /\ IF r.n < len
                THEN workers' = AttemptFailed(w,
                                    DownloadError("Failed to write chunk", "short write"))
                ELSE workers' = [workers EXCEPT ![w].pos = @ + len,
                                                ![w].copied = @ + r.n]
    /\ UNCHANGED << remoteSize, cfg0, gets, cfg, ctxDone, pc, probeReqs, totalBytes, written,
                    err, wg, faults, result >>

\* io.Copy: the body breaks off before its end (Read returns an error)
CopyCut(w) ==
    /\ workers[w].pc = "copy"
    /\ workers[w].pos < BodyLen(Chunk(w))
    /\ MayFail(w)
    /\ workers' = AttemptFailed(w, DownloadError("Failed to write chunk", "unexpected EOF"))
    /\ faults' = [faults EXCEPT ![w][workers[w].ci] = @ + 1]
    /\ UNCHANGED << remoteSize, cfg0, gets, cfg, ctxDone, pc, probeReqs, totalBytes, written,
                    err, batches, wg, sink, result >>

\* io.Copy reaches EOF: tryDownloadChunk and downloadChunk return (num, nil),
\* downloadBatch adds num and moves to the next chunk
CopyEOF(w) ==
    /\ workers[w].pc = "copy"
    /\ workers[w].pos = BodyLen(Chunk(w))
    /\ written' = AddWritten(written, workers[w].copied)
    /\ workers' = [workers EXCEPT ![w] = [@ EXCEPT !.pc = "loop", !.ci = @ + 1,
                        !.i = 0, !.err = NilErr, !.pos = 0, !.copied = 0]]
    /\ UNCHANGED << remoteSize, cfg0, gets, cfg, ctxDone, pc, probeReqs, totalBytes, err,
                    batches, wg, faults, sink, result >>

\* a batch loop that records a chunk's error and goes on with the next chunk
RetriesExhaustedGoesOn(w) ==
    /\ workers[w].pc = "loop"
    /\ workers[w].ci <= Len(batches[w])
    /\ ~MayTry(workers[w].i, cfg.MaxRetries)
    /\ err' = IF workers[w].err # NilErr THEN SetError(err, workers[w].err) ELSE err
    /\ written' = AddWritten(written, 0)
    /\ workers' = [workers EXCEPT ![w] = [@ EXCEPT !.ci = @ + 1, !.i = 0, !.err = NilErr]]
    /\ UNCHANGED << remoteSize, cfg0, gets, cfg, ctxDone, pc, probeReqs, totalBytes, batches,
                    wg, faults, sink, result >>

\* downloadChunk: the retry loop ends without a successful attempt and returns
\* (0, err), err being the last attempt's error, nil when no attempt was made;
\* downloadBatch records a non-nil err and returns (wg.Done)
RetriesExhausted(w) ==
    /\ workers[w].pc = "loop"
    /\ workers[w].ci <= Len(batches[w])
    /\ ~MayTry(workers[w].i, cfg.MaxRetries)
    /\ IF workers[w].err # NilErr
       THEN /\ err' = SetError(err, workers[w].err)
            /\ wg' = wg - 1
            /\ workers' = [workers EXCEPT ![w].pc = "failed"]
            /\ UNCHANGED written
       ELSE /\ written' = AddWritten(written, 0)
            /\ workers' = [workers EXCEPT ![w] = [@ EXCEPT !.ci = @ + 1, !.i = 0]]
            /\ UNCHANGED << err, wg >>
    /\ UNCHANGED << remoteSize, cfg0, gets, cfg, ctxDone, pc, probeReqs, totalBytes, batches,
                    faults, sink, result >>

\* downloadBatch: every chunk of the batch is done (deferred wg.Done)
BatchDone(w) ==
    /\ workers[w].pc = "loop"
    /\ workers[w].ci > Len(batches[w])
    /\ wg' = wg - 1
    /\ workers' = [workers EXCEPT ![w].pc = "done"]
    /\ UNCHANGED << remoteSize, cfg0, gets, cfg, ctxDone, pc, probeReqs, totalBytes, written,
                    err, batches, faults, sink, result >>

----------------------------------------------------------------------------
(* The caller's context *)

\* the caller cancels ctx while the call is running
Cancel ==
    /\ pc \notin {"returned", "panicked"}
    /\ ~ctxDone
    /\ ctxDone' = TRUE
    /\ UNCHANGED << remoteSize, cfg0, gets, cfg, pc, probeReqs, totalBytes, written, err,
                    batches, workers, wg, faults, sink, result >>

----------------------------------------------------------------------------
(* Specifications *)

Next ==
    \/ CreateFile
    \/ Probe
    \/ Plan
    \/ Spawn
    \/ Return
    \/ \E w \in DOMAIN workers : RequestFail(w)
    \/ \E w \in DOMAIN workers : Request206(w)
    \/ \E w \in DOMAIN workers : CopyPiece(w)
    \/ \E w \in DOMAIN workers : CopyCut(w)
    \/ \E w \in DOMAIN workers : CopyEOF(w)
    \/ \E w \in DOMAIN workers : RetriesExhausted(w)
    \/ \E w \in DOMAIN workers : BatchDone(w)

Spec == Init /\ [][Next]_vars

NextCtx == Next \/ Cancel

SpecCtx == Init /\ [][NextCtx]_vars

----------------------------------------------------------------------------
(* Properties *)

\* the planned chunks, as the set of their positions <<batch, index>>
ChunkIds == UNION { { << w, n >> : n \in DOMAIN batches[w] } : w \in DOMAIN batches }

Interval(id) ==
    LET dc == batches[id[1]][id[2]]
    IN  dc.start..(dc.start + dc.size - 1)

Tiles ==
    /\ \A a, b \in ChunkIds : a # b => Interval(a) \cap Interval(b) = {}
    /\ UNION { Interval(id) : id \in ChunkIds } = 0..(totalBytes - 1)
    /\ SumSeq([w \in DOMAIN batches |->
                  SumSeq([n \in DOMAIN batches[w] |-> batches[w][n].size])]) = totalBytes

\* C1: once the plan is made (determineNumParts, then batchChunks), the
\* intervals [start, start+size) of the chunks are pairwise disjoint, their
\* union is [0, total_size) and their sizes add up to total_size.
C1_ChunksTile == (pc = "run") => Tiles

\* the download returned the result of its run phase without error
Succeeded == pc = "returned" /\ probeReqs # << >> /\ result.err = NilErr

SinkHoldsRemote ==
    \A o \in 0..(totalBytes - 1) : o + 1 <= Len(sink) /\ sink[o + 1] = o + 1

\* C2: when a download returns without error, every offset o in
\* [0, total_size) of the sink holds byte o of the remote resource, also when
\* an attempt failed after part of its body was written and a later attempt
\* of the chunk succeeded.  Stated for the downloads whose plan tiles the
\* resource and whose chunks get at least one attempt, where only the retry
\* can spoil the file.
C2_SinkEqualsRemote ==
    (Succeeded /\ Tiles /\ cfg.MaxRetries >= 1) => SinkHoldsRemote

\* C3: whenever download returns without error, the byte count it returns
\* (the written counter) equals the total_size the probe obtained.
C3_WrittenEqualsTotal == Succeeded => result.n = totalBytes

\* C4: with MaxConcurrentDownloads = k > 0, in every state at most k ranged
\* GETs are in flight and at most k workers are running.
C4_AtMostKInFlight ==
    cfg.MaxConcurrentDownloads > 0 =>
        /\ Cardinality({ w \in DOMAIN workers : InFlight(w) }) <= cfg.MaxConcurrentDownloads
        /\ Cardinality({ w \in DOMAIN workers : Running(w) }) <= cfg.MaxConcurrentDownloads

\* k = 2 and four chunks: two batches of two chunks, both with a GET in flight
C4_Witness ==
    /\ cfg.MaxConcurrentDownloads = 2
    /\ Len(batches) = 2
    /\ Len(batches[1]) = 2
    /\ \A w \in DOMAIN workers : InFlight(w)

\* C5: if the caller's context is cancelled while the call is running, the
\* call returns (0, error).
C5_CancelReturnsError ==
    (pc = "returned" /\ ctxDone) => (result.n = 0 /\ result.err # NilErr)

\* C6: when HEAD is answered 405 or 403 the prober next issues GET with
\* Range: bytes=0-0, and if that is answered 206 with Content-Range
\* bytes 0-0/T the probe succeeds with total_size = T and the download goes on.
C6_FallbackToGetZero ==
    (probeReqs # << >> /\ ~probeReqs[1].neterr
        /\ probeReqs[1].status \in {StatusMethodNotAllowed, StatusForbidden}) =>
        /\ Len(probeReqs) = 2
        /\ probeReqs[2].req = "GET0"
        /\ (~probeReqs[2].neterr /\ probeReqs[2].status = StatusPartialContent) =>
              (pc \in {"plan", "run", "returned"} /\ totalBytes = remoteSize
                  /\ (pc = "returned" => Succeeded))

\* C7: a failure recorded later never replaces a first_error that is
\* already stored.
C7_FirstErrorKept == [][err # NilErr => err' = err]_vars

AllWorkersFinished == \A w \in DOMAIN workers : workers[w].pc \in {"done", "failed"}

\* C8: download returns only after every worker has finished, error or not:
\* when it has returned no worker is running or has a fetch in flight, and
\* the sink is not written afterwards.
C8_ReturnsAfterWorkers ==
    /\ [](pc = "returned" => AllWorkersFinished)
    /\ [][pc = "returned" => sink' = sink]_vars

\* returned with one worker failed and another one done with its chunks
C8_Witness ==
    /\ pc = "returned"
    /\ \E w \in DOMAIN workers : workers[w].pc = "failed"
    /\ \E w \in DOMAIN workers : workers[w].pc = "done" /\ Len(batches[w]) > 0

\* the probe got no size: the request failed, or HEAD was refused
ProbeFailed ==
    /\ probeReqs # << >>
    /\ LET last == probeReqs[Len(probeReqs)]
       IN  \/ last.neterr
           \/ last.status \in {StatusMethodNotAllowed, StatusForbidden}

ChunkFailed == \E w \in DOMAIN workers : workers[w].pc = "failed"

\* C9: if the probe fails or a chunk exhausts its retries the call returns
\* (0, error) with a non-nil error, whatever other chunks wrote; only when no
\* failure was recorded does it return (written, nil).
C9_NoPartialSuccess ==
    /\ ProbeFailed => (pc = "returned" /\ result.n = 0 /\ result.err # NilErr)
    /\ (pc = "returned" /\ ChunkFailed) => (result.n = 0 /\ result.err # NilErr)
    /\ (pc = "returned" /\ probeReqs # << >> /\ ~ProbeFailed /\ ~ChunkFailed) =>
          result = [n |-> written, err |-> NilErr]

\* C10: with MaxRetries = r >= 1, if every chunk suffers at most r-1 attempts
\* failed by the transport, the status or a body cut short, download returns
\* success.
C10_TransientFailuresTolerated ==
    (/\ pc = "returned"
     /\ probeReqs # << >> /\ ~ProbeFailed
     /\ cfg.MaxRetries >= 1
     /\ \A id \in ChunkIds : faults[id[1]][id[2]] <= cfg.MaxRetries - 1)
        => result.err = NilErr

\* the probe returned a size without error and the call went on to plan
ProbeSucceeded == pc \in {"run", "returned"} /\ probeReqs # << >> /\ ~ProbeFailed

\* ranged GETs were sent for some chunk: an attempt was counted, is under way
\* or ended
RangedGetIssued ==
    \E w \in DOMAIN workers :
        \/ workers[w].i > 0
        \/ workers[w].pc \in {"copy", "failed"}
        \/ \E n \in DOMAIN faults[w] : faults[w][n] > 0

\* C11: when the probe reports total_size = 0 no chunk is planned, no ranged
\* GET is issued after the probe and download returns (0, nil).
C11_EmptyResourceNoChunks ==
    (ProbeSucceeded /\ totalBytes = 0) =>
        /\ ChunkIds = {}
        /\ ~RangedGetIssued
        /\ pc = "returned" => result = [n |-> 0, err |-> NilErr]

\* the planned chunks themselves
PlannedChunks == { batches[id[1]][id[2]] : id \in ChunkIds }

\* ceil(a / b) for b > 0
CeilDiv(a, b) == (a + b - 1) \div b

\* C12: with a fixed chunk_size c > 0 and total_size T > 0 the planner makes
\* exactly ceil(T / c) chunks, chunk i starting at i * c, each of size c but
\* the last, whose size is T - start (a single chunk of size T when c > T).
C12_FixedChunkSizeCeil ==
    (pc = "run" /\ cfg0.ChunkSize > 0 /\ totalBytes > 0) =>
        LET c == cfg0.ChunkSize
            n == CeilDiv(totalBytes, c)
        IN  /\ Cardinality(ChunkIds) = n
            /\ { dc.start : dc \in PlannedChunks } = { i * c : i \in 0..(n - 1) }
            /\ \A dc \in PlannedChunks :
                   dc.size = IF dc.start + c >= totalBytes
                             THEN totalBytes - dc.start ELSE c

\* the part count the configuration chooses for the probed size: the value of
\* the part_determiner hook, or of the built-in default when no option is set
ChosenPartCount ==
    IF cfg0.ChunkSize > 0 THEN 0
    ELSE IF cfg0.PartDeterminerFunc # NilFunc
         THEN PartDeterminerFunc(cfg0, totalBytes)
    ELSE IF cfg0.ChunkSizeDeterminerFunc # NilFunc THEN 0
    ELSE defaultPartDeterminer(totalBytes)

\* C13: when a part count n >= 1 is chosen for a total_size T >= n, the
\* planner makes exactly n chunks, chunk i starting at i * (T / n), each of
\* size T / n but the last, whose size is T / n + (T mod n).
C13_PartCountLastAbsorbs ==
    (pc = "run" /\ ChosenPartCount >= 1 /\ totalBytes >= ChosenPartCount) =>
        LET n  == ChosenPartCount
            cs == totalBytes \div n
        IN  /\ Cardinality(ChunkIds) = n
            /\ { dc.start : dc \in PlannedChunks } = { i * cs : i \in 0..(n - 1) }
            /\ \A dc \in PlannedChunks :
                   dc.size = IF dc.start = (n - 1) * cs
                             THEN cs + (totalBytes % n) ELSE cs

\* C14: a download call leaves the downloader's configuration as it was:
\* ChunkSize and every other field have the values they had when the call
\* started.
C14_ConfigUnchanged == cfg = cfg0

\* the probe gave a size and download went through its planning step
Planned == probeReqs # << >> /\ ~ProbeFailed /\ pc \in {"run", "returned", "panicked"}

\* C15: with max_concurrent = k > 0 and more than k chunks (a multiple of k
\* or not) the scheduler makes exactly k batches; with bs = chunk_count / k,
\* chunk i goes to batch i / bs, the chunks from k * bs on to the last batch,
\* so each chunk is in exactly one batch and every batch holds consecutive
\* chunks in ascending order.
C15_SchedulerKBatches ==
    LET d  == determineNumParts(cfg0, totalBytes)
        k  == cfg0.MaxConcurrentDownloads
        bs == d.numParts \div k
    IN  (Planned /\ k > 0 /\ ~d.panic /\ d.numParts > k) =>
            /\ pc # "panicked"
            /\ Len(batches) = k
            /\ \A w \in 1..k :
                   /\ Len(batches[w]) = IF w < k THEN bs ELSE d.numParts - (k - 1) * bs
                   /\ \A n \in DOMAIN batches[w] :
                          batches[w][n].start = ((w - 1) * bs + n - 1) * d.chunkSize

\* the byte of sink s at offset o, 0 where the file has none
SinkAt(s, o) == IF o + 1 <= Len(s) THEN s[o + 1] ELSE 0

\* the offsets whose byte this step changes
ChangedOffsets ==
    { o \in 0..(Len(sink') - 1) : SinkAt(sink', o) # SinkAt(sink, o) }

CursorInChunk ==
    \A dc \in PlannedChunks : 0 <= dc.current /\ dc.current <= dc.size

\* C16: every chunk always has 0 <= cursor <= size, no step lowers a cursor,
\* and every byte a step puts into the sink lands inside [start, start+size)
\* of a chunk whose cursor that step advanced, on first attempts and retries
\* and whatever the lengths of the pieces the body comes in.
C16_CursorWithinChunk ==
    /\ []CursorInChunk
    /\ [][\A id \in ChunkIds :
             batches'[id[1]][id[2]].current >= batches[id[1]][id[2]].current]_vars
    /\ [][\A o \in ChangedOffsets :
             \E id \in ChunkIds :
                /\ batches'[id[1]][id[2]].current > batches[id[1]][id[2]].current
                /\ o \in Interval(id)]_vars

\* the sink offsets worker w has written so far: a chunk's writes go to
\* start + current and current only grows, so they fill [start, start+current)
WrittenBy(w) ==
    UNION { (batches[w][n].start)..(batches[w][n].start + batches[w][n].current - 1) :
              n \in DOMAIN batches[w] }

\* C17: no sink offset is written by two different workers, and an offset
\* inside a planned chunk is written by the worker owning that chunk only.
C17_OneWriterPerOffset ==
    /\ \A w1, w2 \in DOMAIN batches :
           w1 # w2 => WrittenBy(w1) \cap WrittenBy(w2) = {}
    /\ \A w \in DOMAIN batches : \A o \in WrittenBy(w) :
           \A id \in ChunkIds : o \in Interval(id) => id[1] = w

\* C18: every attempt of a chunk, first or retry, writes its body from
\* chunk.start on: the piece read at body position pos goes to the sink at
\* chunk.start + pos, so an attempt that received n bytes has written
\* [chunk.start, chunk.start + n).
C18_AttemptWritesFromStart ==
    [][\A w \in DOMAIN workers :
          (/\ workers[w].pc = "copy"
           /\ workers'[w].pc = "copy"
           /\ workers'[w].pos > workers[w].pos) =>
              LET dc  == Chunk(w)
                  pos == workers[w].pos
                  len == workers'[w].pos - pos
              IN  sink' = WriteAt(sink, RemoteBytes(dc.start + pos, len), dc.start + pos)]_vars

\* the ranged GETs worker w has sent for the chunk it is at
Attempts(w) == workers[w].i + (IF workers[w].pc = "copy" THEN 1 ELSE 0)

\* worker w is in the retry loop of a chunk after max_retries failed attempts
Exhausted(w) ==
    /\ workers[w].pc = "loop"
    /\ workers[w].ci <= Len(batches[w])
    /\ workers[w].i = cfg.MaxRetries

\* C19: for every max_retries >= 0 a chunk gets at most max_retries ranged
\* GETs, a successful attempt ends the chunk (the worker goes to its next
\* chunk), and the chunk is reported failed, its error recorded, exactly when
\* max_retries attempts were made and all of them failed.
C19_RetryBudget ==
    /\ [](\A w \in DOMAIN workers :
             /\ Attempts(w) <= cfg.MaxRetries
             /\ workers[w].pc = "failed" => workers[w].i = cfg.MaxRetries)
    /\ [][\A w \in DOMAIN workers :
             (workers[w].pc = "copy" /\ workers'[w].pc = "loop"
                 /\ workers'[w].i = 0) => workers'[w].ci = workers[w].ci + 1]_vars
    /\ [][\A w \in DOMAIN workers :
             (Exhausted(w) /\ workers'[w] # workers[w]) =>
                 /\ workers'[w].pc = "failed"
                 /\ err' # NilErr]_vars

\* C20: when HEAD is answered 404 the probe fails with an error for the
\* missing resource: download returns (0, error), no chunk is planned and no
\* ranged GET is sent.
C20_Head404FailsProbe ==
    (probeReqs # << >> /\ ~probeReqs[1].neterr /\ probeReqs[1].status = 404) =>
        /\ pc = "returned"
        /\ result.n = 0
        /\ result.err # NilErr
        /\ ChunkIds = {}
        /\ ~RangedGetIssued

\* the options resolve to no part at all: a hook returned 0, or the chunk
\* size is larger than the resource
ResolvedZeroParts ==
    LET d == determineNumParts(cfg0, totalBytes)
    IN  d.panic \/ d.numParts = 0

\* C21: when the resolved part count is 0 and total_size > 0, planning does
\* not abort (no division by zero) and the plan is the single chunk
\* [0, total_size), never an empty plan.
C21_ZeroPartsClampedToOne ==
    (Planned /\ totalBytes > 0 /\ ResolvedZeroParts) =>
        /\ pc # "panicked"
        /\ Cardinality(ChunkIds) = 1
        /\ \A dc \in PlannedChunks : dc.start = 0 /\ dc.size = totalBytes

\* downloadChunk is about to return an error for the chunk worker w is at:
\* the attempts are used up and the last one failed
ChunkExhausted(w) == Exhausted(w) /\ workers[w].err # NilErr

\* C22: when a chunk exhausts its retries its worker records the error and
\* stops: it sends no request for a later chunk of its batch.  The other
\* workers are not interrupted by that: a worker ends only by failing a chunk
\* of its own or after going through every chunk of its batch.
C22_FailureStopsOwnBatchOnly ==
    [][\A w \in DOMAIN workers :
         IF workers'[w] = workers[w]
         THEN workers[w].pc = "failed" =>
                  batches'[w] = batches[w] /\ faults'[w] = faults[w]
         ELSE /\ workers[w].pc # "failed"
              /\ ChunkExhausted(w) =>
                     workers'[w].pc = "failed" /\ err' = workers[w].err
              /\ workers'[w].pc = "failed" => ChunkExhausted(w)
              /\ workers'[w].pc = "done" => workers[w].ci > Len(batches[w])]_vars

\* worker 1 failed on the first of its two chunks and never asked for the
\* second one, while worker 2 is copying the body of its second chunk
C22_Witness ==
    /\ Len(batches) = 2
    /\ Len(batches[1]) = 2 /\ Len(batches[2]) = 2
    /\ workers[1].pc = "failed" /\ workers[1].ci = 1
    /\ faults[1][2] = 0 /\ batches[1][2].current = 0
    /\ workers[2].pc = "copy" /\ workers[2].ci = 2

\* C23: every download call ends by returning, whatever the server does (so
\* it is never in a state it cannot return from), and the ranged GETs sent
\* are at most chunk_count * max_retries.
C23_ReturnsWithinBudget ==
    /\ pc # "panicked"
    /\ gets <= Cardinality(ChunkIds) * cfg.MaxRetries

====
